---- MODULE Spec2Model ----
(***************************************************************************)
(* Model of the code of flappybird_kerasrl_train.py:                       *)
(*   - FlappyBirdProcessor.process_reward (reward clipping), and           *)
(*   - TensorboardCallback (__init__, on_step_end, on_episode_end,         *)
(*     _log_scalar).                                                       *)
(* The replay memory, the policy, the agent and its fit/test loops are     *)
(* imported from the keras-rl package (rl.memory, rl.policy,               *)
(* rl.agents.dqn); main() only constructs and calls them, so they have no  *)
(* definition here.                                                        *)
(*                                                                         *)
(* Rewards are floating-point numbers in the code.  They are modelled as   *)
(* fixed-point numbers: the integer n stands for the reward n / Scale.     *)
(* NaN and the infinities are not covered.                                 *)
(***************************************************************************)
EXTENDS Integers, Sequences, FiniteSets

VARIABLES
    \* ---- FlappyBirdProcessor.process_reward, one call chain ----
    ppc,            \* "raw" -> "clipped" -> "reclipped"
    reward_in,      \* the reward handed to process_reward (fixed point)
    reward_out,     \* process_reward(reward_in)
    reward_twice,   \* process_reward(process_reward(reward_in))
    \* ---- TensorboardCallback fields ----
    log_interval,
    iterations,
    running_reward,             \* running_data["reward"]            (deque)
    running_episode_duration,   \* running_data["episode_duration"]  (deque)
    reward_buffer_length,             \* maxlen of running_data["reward"]
    episode_duration_buffer_length,   \* maxlen of running_data["episode_duration"]
    summaries,      \* what tensorboard_writer.add_summary received, in order
    \* ---- observation of the calls made on the callback ----
    history         \* one record per call of on_step_end / on_episode_end

vars == <<ppc, reward_in, reward_out, reward_twice,
          log_interval, iterations, running_reward, running_episode_duration,
          reward_buffer_length, episode_duration_buffer_length, summaries, history>>

processorVars == <<ppc, reward_in, reward_out, reward_twice>>

callbackVars == <<log_interval, iterations, running_reward, running_episode_duration,
                  reward_buffer_length, episode_duration_buffer_length, summaries, history>>

----------------------------------------------------------------------------
\* Bounds of the model.

\* fixed-point denominator of a reward
Scale == 4
\* rewards range over -MaxReward .. MaxReward (whole units)
MaxReward == 5
\* the largest log_interval a callback is constructed with
MaxLogInterval == 3
\* the largest deque maxlen a callback is constructed with
MaxBufferLength == 2
\* the number of calls made on one callback
MaxCalls == 5
\* the largest nb_episode_steps reported to on_episode_end
MaxEpisodeSteps == 2

----------------------------------------------------------------------------
\* FlappyBirdProcessor

\* the clip range of process_reward: np.clip(reward, -1., 1.)
ClipMin == -1
ClipMax == 1

Min(a, b) == IF a <= b THEN a ELSE b
Max(a, b) == IF a >= b THEN a ELSE b

\* np.clip(a, a_min, a_max) on a scalar: minimum(a_max, maximum(a, a_min))
np_clip(a, a_min, a_max) == Min(a_max, Max(a, a_min))

\* a plausible slip: only the upper end is clipped
process_reward_upper_only(reward) == Min(ClipMax * Scale, reward)

process_reward(reward) == np_clip(reward, ClipMin * Scale, ClipMax * Scale)

Rewards == (-MaxReward * Scale) .. (MaxReward * Scale)

\* the constructor state of a TensorboardCallback as main() builds it, scaled
\* to the model's bounds; the callback is idle in the processor's specification
IdleCallback ==
    /\ log_interval = MaxLogInterval
    /\ iterations = 0
    /\ running_reward = <<>>
    /\ running_episode_duration = <<>>
    /\ reward_buffer_length = MaxBufferLength
    /\ episode_duration_buffer_length = MaxBufferLength
    /\ summaries = <<>>
    /\ history = <<>>

InitProcessor ==
    /\ ppc = "raw"
    /\ reward_in \in Rewards
    /\ reward_out = 0
    /\ reward_twice = 0
    /\ IdleCallback

\* reward' = processor.process_reward(reward)
ProcessReward ==
    /\ ppc = "raw"
    /\ reward_out' = process_reward(reward_in)
    /\ ppc' = "clipped"
    /\ UNCHANGED <<reward_in, reward_twice>>
    /\ UNCHANGED callbackVars

\* the clipped reward is handed to process_reward once more
ProcessRewardAgain ==
    /\ ppc = "clipped"
    /\ reward_twice' = process_reward(reward_out)
    /\ ppc' = "reclipped"
    /\ UNCHANGED <<reward_in, reward_out>>
    /\ UNCHANGED callbackVars

NextProcessor == ProcessReward \/ ProcessRewardAgain

SpecProcessor == InitProcessor /\ [][NextProcessor]_vars

----------------------------------------------------------------------------
\* TensorboardCallback

\* collections.deque(..., maxlen=maxlen).append(x)
deque_append(d, x, maxlen) ==
    IF maxlen = 0 THEN d
    ELSE IF Len(d) >= maxlen THEN Append(Tail(d), x)
    ELSE Append(d, x)

RECURSIVE SeqSum(_)
SeqSum(s) == IF s = <<>> THEN 0 ELSE Head(s) + SeqSum(Tail(s))

\* np.mean(values), kept exact as the fraction num / den
np_mean(values) == [num |-> SeqSum(values), den |-> Len(values)]

\* _log_scalar(tag, value, step): one summary handed to the writer
log_scalar(written, tag, value, step) ==
    Append(written, [tag |-> tag, value |-> value, step |-> step])

\* a plausible slip: the counter is incremented before the interval test
log_due_after_increment(its, interval) == (its + 1) % interval = 0

\* the test `self.iterations % self.log_interval == 0`
log_due(its, interval) == its % interval = 0

\* the loop over running_data.items(): "reward" first, then
\* "episode_duration" (insertion order), skipping empty deques
log_running_data(written, rewards, durations, its) ==
    LET w1 == IF Len(rewards) > 0
              THEN log_scalar(written, "reward-mean", np_mean(rewards), its)
              ELSE written
    IN  IF Len(durations) > 0
        THEN log_scalar(w1, "episode_duration-mean", np_mean(durations), its)
        ELSE w1

\* `self.iterations += 1`
next_iterations(its) == its + 1

\* what a call wrote: the summaries appended during it
Written(before, after) == SubSeq(after, Len(before) + 1, Len(after))

StepRewards == {-1, 0, 1}

\* TensorboardCallback.__init__ with positive arguments
Init ==
    /\ ppc = "raw"
    /\ reward_in = 0
    /\ reward_out = 0
    /\ reward_twice = 0
    /\ log_interval \in 1..MaxLogInterval
    /\ reward_buffer_length \in 1..MaxBufferLength
    /\ episode_duration_buffer_length \in 1..MaxBufferLength
    /\ iterations = 0
    /\ running_reward = <<>>
    /\ running_episode_duration = <<>>
    /\ summaries = <<>>
    /\ history = <<>>

\* TensorboardCallback.on_step_end(step, logs) with logs["reward"] = reward
on_step_end(reward) ==
    /\ Len(history) < MaxCalls
    /\ running_reward' = deque_append(running_reward, reward, reward_buffer_length)
    /\ summaries' = IF log_due(iterations, log_interval)
                    THEN log_running_data(summaries, running_reward',
                                          running_episode_duration, iterations)
                    ELSE summaries
    /\ iterations' = next_iterations(iterations)
    /\ history' = Append(history, [op |-> "on_step_end",
                                   iterations_before |-> iterations,
                                   iterations_after |-> iterations',
                                   written |-> Written(summaries, summaries')])
    /\ UNCHANGED <<log_interval, running_episode_duration,
                   reward_buffer_length, episode_duration_buffer_length>>
    /\ UNCHANGED processorVars

\* TensorboardCallback.on_episode_end(step, logs) with
\* logs["nb_episode_steps"] = nb_episode_steps
on_episode_end(nb_episode_steps) ==
    /\ Len(history) < MaxCalls
    /\ running_episode_duration' = deque_append(running_episode_duration, nb_episode_steps,
                                                episode_duration_buffer_length)
    /\ history' = Append(history, [op |-> "on_episode_end",
                                   iterations_before |-> iterations,
                                   iterations_after |-> iterations,
                                   written |-> Written(summaries, summaries)])
    /\ UNCHANGED <<log_interval, iterations, running_reward,
                   reward_buffer_length, episode_duration_buffer_length, summaries>>
    /\ UNCHANGED processorVars

StepEnd == \E reward \in StepRewards : on_step_end(reward)

EpisodeEnd == \E n \in 1..MaxEpisodeSteps : on_episode_end(n)

Next == StepEnd \/ EpisodeEnd

Spec == Init /\ [][Next]_vars

----------------------------------------------------------------------------
\* Properties of FlappyBirdProcessor.process_reward (under SpecProcessor)

InClipRange(r) == ClipMin * Scale <= r /\ r <= ClipMax * Scale

\* C9: reward clipping is idempotent and range-bounded: clipping a clipped
\* reward gives the clipped reward again, every clipped reward lies in
\* [-1, 1], and a reward already in [-1, 1] is returned unchanged.
C9_RewardClipIdempotentBounded ==
    /\ ppc \in {"clipped", "reclipped"} =>
          /\ InClipRange(reward_out)
          /\ (InClipRange(reward_in) => reward_out = reward_in)
    /\ ppc = "reclipped" => reward_twice = reward_out

\* a reward below the range has been clipped and clipped again
C9_Witness ==
    /\ ppc = "reclipped"
    /\ reward_in < ClipMin * Scale
    /\ reward_out = ClipMin * Scale
    /\ reward_twice = reward_out

----------------------------------------------------------------------------
\* Properties of TensorboardCallback (under Spec)

IsStepEnd(h) == h.op = "on_step_end"

\* the on_step_end calls made so far, in order; the k-th has 0-based index k - 1
StepCalls == SelectSeq(history, IsStepEnd)

\* C10: for every interleaving of on_step_end and on_episode_end calls,
\* iterations equals the number of on_step_end calls made so far; summaries
\* are written exactly during the on_step_end calls whose 0-based index is a
\* multiple of log_interval (the first call included), each tagged with that
\* index as its step; on_episode_end writes no summary and leaves iterations
\* unchanged.
C10_IterationsAndLogging ==
    /\ iterations = Len(StepCalls)
    /\ \A k \in 1..Len(StepCalls) :
          /\ (StepCalls[k].written # <<>>) <=> ((k - 1) % log_interval = 0)
          /\ \A j \in 1..Len(StepCalls[k].written) :
                StepCalls[k].written[j].step = k - 1
    /\ \A i \in 1..Len(history) :
          history[i].op = "on_episode_end" =>
              /\ history[i].written = <<>>
              /\ history[i].iterations_after = history[i].iterations_before

\* with log_interval 2: the calls of index 0 and 2 logged, the call of index 1
\* did not, and an episode ended in between
C10_Witness ==
    /\ log_interval = 2
    /\ Len(StepCalls) >= 3
    /\ StepCalls[1].written # <<>>
    /\ StepCalls[2].written = <<>>
    /\ StepCalls[3].written # <<>>
    /\ \E i \in 1..Len(history) : history[i].op = "on_episode_end"
    /\ \E j \in 1..Len(summaries) : summaries[j].tag = "episode_duration-mean"

====
